---- MODULE Spec2Model ----
(***************************************************************************)
(* Black-Scholes pricer and implied-volatility solver                      *)
(* (src/black_scholes.py, src/implied_vol.py).                             *)
(*                                                                         *)
(* Floating-point numbers are modelled as decimal fixed-point numbers:     *)
(* the integer x stands for the real x / ONE, with ONE = 10^8, so one      *)
(* quantum is 1e-8.  TLC integers are 32 bits wide, so the representable   *)
(* range is about (-21.47, 21.47); the inputs are chosen to stay inside.   *)
(* Products and quotients truncate toward zero to the quantum.             *)
(***************************************************************************)
EXTENDS Integers, Naturals, Sequences, FiniteSets, TLC

----------------------------------------------------------------------------
(* Fixed-point arithmetic: the model of Python's float operations.         *)
(* The numeric primitives are functions on Int, so that an argument is     *)
(* evaluated once, when the function is applied.                           *)

ONE == 10^8
HALF == 10^4

Abs[x \in Int] == IF x < 0 THEN -x ELSE x
Sgn[x \in Int] == IF x < 0 THEN -1 ELSE IF x > 0 THEN 1 ELSE 0
Max[a \in Int, b \in Int] == IF a >= b THEN a ELSE b
Min[a \in Int, b \in Int] == IF a <= b THEN a ELSE b
Clamp[x \in Int, lo \in Int, hi \in Int] == Min[Max[x, lo], hi]

\* Magnitude cap for saturating quotients (10.0): a quotient at least this
\* large is reported as +-SatCap.
SatCap == 10 * ONE

\* a * b for non-negative operands below 10.0, by four partial products
\* so that no intermediate exceeds 32 bits.
FMulAbs[a \in Nat, b \in Nat] ==
    LET ah == a \div HALF
        al == a % HALF
        bh == b \div HALF
        bl == b % HALF
    IN  ah * bh + ((ah * bl + al * bh + ((al * bl) \div HALF)) \div HALF)

\* Python float `a * b`.
FMul[a \in Int, b \in Int] == Sgn[a] * Sgn[b] * FMulAbs[Abs[a], Abs[b]]

\* One doubling step of long division: from <<q, r>> with 0 <= r < b to
\* <<floor((2 r + a) / b) + 2 q, (2 r + a) mod b>> for an addend 0 <= a < b.
DivStep[q \in Nat, r \in Nat, a \in Nat, b \in Nat] ==
    IF 2 * r + a >= 2 * b THEN <<2 * q + 2, 2 * r + a - 2 * b>>
    ELSE IF 2 * r + a >= b THEN <<2 * q + 1, 2 * r + a - b>>
    ELSE <<2 * q, 2 * r + a>>

\* One decimal digit of long division: <<floor(10 r / b), (10 r) mod b>>
\* for 0 <= r < b < 2^29, by doublings (10 r = 2 (2 (2 r) + r)).
DivDigit[r \in Nat, b \in Nat] ==
    LET s1 == DivStep[0, r, 0, b]
        s2 == DivStep[s1[1], s1[2], r, b]
    IN  DivStep[s2[1], s2[2], 0, b]

DivDigits[q \in Nat, r \in Nat, b \in Nat, n \in Nat] ==
    IF n = 0 THEN q
    ELSE LET d == DivDigit[r, b]
         IN  DivDigits[10 * q + d[1], d[2], b, n - 1]

\* a / b for a >= 0, b > 0, saturating at SatCap.
FDivAbs[a \in Nat, b \in Nat] ==
    IF a \div b >= SatCap \div ONE THEN SatCap
    ELSE DivDigits[a \div b, a % b, b, 8]

\* Python float `a / b` (b # 0), saturating at +-SatCap.
FDiv[a \in Int, b \in Int] == Sgn[a] * Sgn[b] * FDivAbs[Abs[a], Abs[b]]

\* Integer square root, by Newton's iteration from above.
ISqrtIter[n \in Nat, x \in Nat] ==
    LET y == (x + n \div x) \div 2
    IN  IF y >= x THEN x ELSE ISqrtIter[n, y]

SqrtRefine[x \in Nat, s \in Nat, n \in Nat] ==
    IF n = 0 THEN s ELSE SqrtRefine[x, (s + FDiv[x, s]) \div 2, n - 1]

\* math.sqrt(x), x >= 0.
Sqrt[x \in Nat] ==
    IF x = 0 THEN 0 ELSE SqrtRefine[x, ISqrtIter[x, x] * HALF, 3]

\* Order of the Taylor polynomial of exp on [0, 1].
ExpTerms == 14

\* Horner form: terms k .. ExpTerms of the series are in acc.
ExpHorner[f \in Nat, k \in Nat, acc \in Nat] ==
    IF k = 0 THEN acc
    ELSE ExpHorner[f, k - 1, ONE + (FMul[f, acc] \div k)]

ExpFrac[f \in Nat] == ExpHorner[f, ExpTerms, ONE]

EulerE == ExpFrac[ONE]
EulerInv == FDiv[ONE, EulerE]

FPow[b \in Nat, n \in Nat] == IF n = 0 THEN ONE ELSE FMul[b, FPow[b, n - 1]]

\* math.exp(x), x in [-21, 2].
Exp[x \in Int] ==
    IF x >= 0
    THEN FMul[FPow[EulerE, x \div ONE], ExpFrac[x % ONE]]
    ELSE IF (-x) % ONE = 0 THEN FPow[EulerInv, (-x) \div ONE]
    ELSE FMul[FPow[EulerInv, ((-x) \div ONE) + 1], ExpFrac[ONE - ((-x) % ONE)]]

\* Number of terms of the series of atanh.
LnTerms == 12

\* Horner form in z^2 of atanh(z) / z = 1 + z^2/3 + z^4/5 + ...
AtanhHorner[z2 \in Nat, k \in Nat, acc \in Nat] ==
    IF k = 0 THEN acc
    ELSE AtanhHorner[z2, k - 1, ONE \div (2 * k - 1) + FMul[z2, acc]]

\* ln(y) = 2 atanh((y - 1) / (y + 1)), for y in [1/2, 2].
LnOfZ[z \in Int] == 2 * FMul[z, AtanhHorner[FMul[z, z], LnTerms, 0]]

LnNear1[y \in Nat] == LnOfZ[FDiv[y - ONE, y + ONE]]

Ln2 == LnNear1[2 * ONE]

\* math.log(y), y > 0, by halving or doubling y into [1/2, 2].
Ln[y \in Nat] ==
    IF y > 2 * ONE THEN Ln2 + Ln[y \div 2]
    ELSE IF 2 * y < ONE THEN Ln[2 * y] - Ln2
    ELSE LnNear1[y]

----------------------------------------------------------------------------
(* scipy.stats.norm: the standard normal density and distribution.         *)

\* 1 / sqrt(2 pi)
InvSqrt2Pi == 39894228

\* |d1|, |d2| are saturated at DCap (6.0): beyond it the density and the
\* lower tail are below one quantum.
DCap == 6 * ONE

\* norm.pdf(x), |x| <= DCap.
NormPdf[x \in Int] == FMul[InvSqrt2Pi, Exp[-FMul[Abs[x] \div 2, Abs[x]]]]

\* Coefficients of Abramowitz-Stegun 26.2.17 (absolute error < 7.5e-8).
CdfP == 23164190
CdfB1 == 31938153
CdfB2 == -35656378
CdfB3 == 178147794
CdfB4 == -182125598
CdfB5 == 133027443

CdfPoly[t \in Int] ==
    FMul[t, CdfB1 + FMul[t, CdfB2 + FMul[t, CdfB3
            + FMul[t, CdfB4 + FMul[t, CdfB5]]]]]

\* 1 - norm.cdf(x) for 0 <= x <= DCap.
UpperTail[x \in Nat] ==
    Clamp[FMul[NormPdf[x], CdfPoly[FDiv[ONE, ONE + FMul[CdfP, x]]]],
          0, ONE \div 2]

\* norm.cdf(x), |x| <= DCap.
NormCdf[x \in Int] == IF x >= 0 THEN ONE - UpperTail[x] ELSE UpperTail[-x]

----------------------------------------------------------------------------
(* src/black_scholes.py                                                    *)

\* A Python call either returns a value or raises ValueError.
Ret(v) == [raised |-> FALSE, v |-> v]
Raise == [raised |-> TRUE, v |-> 0]

\* str.lower() on the characters the inputs use.
LowerChar(c) ==
    CASE c = "C" -> "c" [] c = "A" -> "a" [] c = "L" -> "l"
      [] c = "P" -> "p" [] c = "U" -> "u" [] c = "T" -> "t"
      [] OTHER -> c

Lower(s) == [i \in 1..Len(s) |-> LowerChar(s[i])]

RECURSIVE LStrip(_)
LStrip(s) == IF s # <<>> /\ Head(s) = " " THEN LStrip(Tail(s)) ELSE s

RECURSIVE RStrip(_)
RStrip(s) ==
    IF s # <<>> /\ s[Len(s)] = " " THEN RStrip(SubSeq(s, 1, Len(s) - 1))
    ELSE s

\* option_type.lower().strip()
Normalize(s) == RStrip(LStrip(Lower(s)))

CALL == <<"c", "a", "l", "l">>
PUT == <<"p", "u", "t">>

\* option_type in ("call", "put")
ValidSide(side) == side = CALL \/ side = PUT

\* Variant of ValidateRaises: the test of sigma is missing.
ValidateRaisesNoSigma(S, K, T, sigma) == S <= 0 \/ K <= 0 \/ T < 0

\* _validate_inputs: TRUE iff it raises ValueError.
ValidateRaises(S, K, T, sigma) == S <= 0 \/ K <= 0 \/ T < 0 \/ sigma < 0

\* d1 = (log(S / K) + (r - q + 0.5 sigma^2) T) / (sigma sqrtT), saturated
\* at +-DCap.
D1[S \in Int, K \in Int, T \in Int, r \in Int, q \in Int, sigma \in Int] ==
    Clamp[FDiv[Ln[FDiv[S, K]] + FMul[r - q + FMul[sigma \div 2, sigma], T],
               FMul[sigma, Sqrt[T]]],
          -DCap, DCap]

\* d2 = d1 - sigma sqrtT, saturated at +-DCap.
D2[d1 \in Int, T \in Int, sigma \in Int] ==
    Clamp[d1 - FMul[sigma, Sqrt[T]], -DCap, DCap]

\* The closed form, lines 70-76.
ClosedForm[call \in BOOLEAN, S \in Int, K \in Int, T \in Int, r \in Int, q \in Int, d1 \in Int, d2 \in Int] ==
    IF call
    THEN FMul[FMul[S, Exp[-FMul[q, T]]], NormCdf[d1]]
         - FMul[FMul[K, Exp[-FMul[r, T]]], NormCdf[d2]]
    ELSE FMul[FMul[K, Exp[-FMul[r, T]]], NormCdf[-d2]]
         - FMul[FMul[S, Exp[-FMul[q, T]]], NormCdf[-d1]]

\* The deterministic forward case sigma = 0, lines 58-64.
ForwardCase[call \in BOOLEAN, S \in Int, K \in Int, T \in Int, r \in Int, q \in Int] ==
    IF call
    THEN FMul[Exp[-FMul[r, T]], Max[FMul[S, Exp[FMul[r - q, T]]] - K, 0]]
    ELSE FMul[Exp[-FMul[r, T]], Max[K - FMul[S, Exp[FMul[r - q, T]]], 0]]

\* The closed form given d1, lines 68-76.
ClosedFormD1[call \in BOOLEAN, S \in Int, K \in Int, T \in Int, r \in Int, q \in Int, sigma \in Int, d1 \in Int] ==
    ClosedForm[call, S, K, T, r, q, d1, D2[d1, T, sigma]]

\* black_scholes_price after validation (S > 0, K > 0, T >= 0, sigma >= 0).
PriceBody(side, S, K, T, r, q, sigma) ==
    IF T = 0
    THEN IF side = CALL THEN Max[S - K, 0] ELSE Max[K - S, 0]
    ELSE IF sigma = 0
    THEN ForwardCase[side = CALL, S, K, T, r, q]
    ELSE ClosedFormD1[side = CALL, S, K, T, r, q, sigma,
                      D1[S, K, T, r, q, sigma]]

\* black_scholes_price(option_type, S, K, T, r, q, sigma)
black_scholes_price(option_type, S, K, T, r, q, sigma) ==
    IF ~ValidSide(Normalize(option_type)) THEN Raise
    ELSE IF ValidateRaises(S, K, T, sigma) THEN Raise
    ELSE Ret(PriceBody(Normalize(option_type), S, K, T, r, q, sigma))

\* black_scholes_vega(S, K, T, r, q, sigma)
black_scholes_vega(S, K, T, r, q, sigma) ==
    IF ValidateRaises(S, K, T, sigma) THEN Raise
    ELSE IF T = 0 \/ sigma = 0 THEN Ret(0)
    ELSE Ret(FMul[FMul[FMul[S, Exp[-FMul[q, T]]],
                       NormPdf[D1[S, K, T, r, q, sigma]]], Sqrt[T]])

\* put_call_parity_check is not used by the solver and is not modelled.

----------------------------------------------------------------------------
(* src/implied_vol.py: pure parts                                          *)

\* float("nan") and an ordinary float result.
NaN == [nan |-> TRUE, v |-> 0]
Num(x) == [nan |-> FALSE, v |-> x]

\* math.isnan
IsNan(x) == x.nan

\* _no_arbitrage_bounds(option_type, S, K, T, r, q) = <<lower, upper>>
NoArbitrageBounds(side, S, K, T, r, q) ==
    LET disc_q == Exp[-FMul[q, T]]
        disc_r == Exp[-FMul[r, T]]
    IN  IF side = CALL
        THEN <<Max[0, FMul[S, disc_q] - FMul[K, disc_r]], FMul[S, disc_q]>>
        ELSE <<Max[0, FMul[K, disc_r] - FMul[S, disc_q]], FMul[K, disc_r]>>

\* The literal 1e-12 of the bounds test.  It is below one quantum, and for
\* values on the grid  lb - 1e-12 <= p <= ub + 1e-12  iff  lb <= p <= ub.
BoundsTol == 0

\* not (lb - 1e-12 <= market_price <= ub + 1e-12)
OutsideBounds(side, market_price, S, K, T, r, q) ==
    LET b == NoArbitrageBounds(side, S, K, T, r, q)
    IN  ~(b[1] - BoundsTol <= market_price /\ market_price <= b[2] + BoundsTol)

\* Defaults of implied_vol_newton.
DefaultInitialSigma == ONE \div 5
NewtonTol == ONE \div 10^7
NewtonMaxIter == 100
\* vega_floor = 1e-10 is below one quantum: for values on the grid
\* vega < 1e-10  iff  vega < 1 quantum.
VegaFloor == 1
SigmaMin == ONE \div 10^6
SigmaMax == 5 * ONE

\* Defaults of implied_vol_bisection.
BisectTol == ONE \div 10^7
\* Variant of BisectMaxIter: fewer iterations than the bracket needs.
BisectMaxIterShort == 2 * 10
BisectMaxIter == 200
SigmaLow == ONE \div 10^6
SigmaHigh == 5 * ONE

NewtonDefaults ==
    [tol |-> NewtonTol, max_iter |-> NewtonMaxIter, vega_floor |-> VegaFloor,
     sigma_min |-> SigmaMin, sigma_max |-> SigmaMax, enforce_bounds |-> TRUE]

BisectDefaults ==
    [tol |-> BisectTol, max_iter |-> BisectMaxIter, sigma_low |-> SigmaLow,
     sigma_high |-> SigmaHigh, enforce_bounds |-> TRUE]

\* Variant of InitialSigma: the guess is taken as given, not clamped.
InitialSigmaNoClamp(initial_sigma, sigma_min, sigma_max) == initial_sigma

\* sigma = min(max(float(initial_sigma), sigma_min), sigma_max)
InitialSigma(initial_sigma, sigma_min, sigma_max) ==
    Min[Max[initial_sigma, sigma_min], sigma_max]

\* Variant of PreCheckRejects: expiry (T = 0) is let through.
PreCheckExpiryAllowed(side, market_price, S, K, T, r, q, enforce_bounds) ==
    \/ market_price < 0
    \/ T < 0
    \/ enforce_bounds /\ OutsideBounds(side, market_price, S, K, T, r, q)

\* market_price < 0, T <= 0 and the bounds test: TRUE iff the procedure
\* returns NaN before its first pricer evaluation.
PreCheckRejects(side, market_price, S, K, T, r, q, enforce_bounds) ==
    \/ market_price < 0
    \/ T <= 0
    \/ enforce_bounds /\ OutsideBounds(side, market_price, S, K, T, r, q)

\* The sign test  a * b > 0  (exact: the sign of a product).
ProductPositive(a, b) == Sgn[a] * Sgn[b] > 0
----------------------------------------------------------------------------
(* State.                                                                  *)

VARIABLES
    entry,      \* the function called: "implied_vol", "newton", "bisection"
    args,       \* its arguments
    ncfg,       \* keyword arguments of implied_vol_newton
    bcfg,       \* keyword arguments of implied_vol_bisection
    pc,         \* position of the call
    side,       \* option_type after .lower().strip()
    sigma,      \* implied_vol_newton: sigma
    n_iter,     \* implied_vol_newton: loop iterations completed
    n_ret,      \* value returned by implied_vol_newton
    low, high,  \* implied_vol_bisection: the bracket
    f_low, f_high, \* implied_vol_bisection: cached f at low and high
    b_iter,     \* implied_vol_bisection: loop iterations completed
    b_ret,      \* value returned by implied_vol_bisection
    result,     \* value returned by the entry function
    trace,      \* the sub-procedures entered, in order
    evals,      \* number of black_scholes_price / black_scholes_vega calls
    n_sigmas    \* the sigmas at which implied_vol_newton called the pricer

vars == <<entry, args, ncfg, bcfg, pc, side, sigma, n_iter, n_ret, low, high,
          f_low, f_high, b_iter, b_ret, result, trace, evals, n_sigmas>>

\* f(x) = black_scholes_price(x) - market_price, for validated inputs.
F(x) == PriceBody(Normalize(args.side), args.S, args.K, args.T, args.r,
                  args.q, x) - args.market_price

----------------------------------------------------------------------------
(* implied_vol_newton                                                      *)

\* Lines 41-56: normalisation, pre-checks, initial sigma.
NewtonEnter ==
    /\ pc = "newton_enter"
    /\ trace' = Append(trace, "newton")
    /\ side' = Normalize(args.side)
    /\ IF ~ValidSide(side')
       THEN /\ pc' = "raised"
            /\ UNCHANGED <<sigma, n_ret>>
       ELSE IF PreCheckRejects(side', args.market_price, args.S, args.K,
                               args.T, args.r, args.q, ncfg.enforce_bounds)
       THEN /\ n_ret' = NaN
            /\ pc' = "newton_ret"
            /\ UNCHANGED sigma
       ELSE /\ sigma' = InitialSigma(args.initial_sigma, ncfg.sigma_min,
                                     ncfg.sigma_max)
            /\ pc' = "newton_loop"
            /\ UNCHANGED n_ret
    /\ n_iter' = 0
    /\ UNCHANGED <<entry, args, ncfg, bcfg, low, high, f_low, f_high, b_iter,
                   b_ret, result, evals, n_sigmas>>

\* Variant of Converged: the absolute value is missing.
ConvergedNoAbs(diff, tol) == diff < tol

\* abs(diff) < tol
Converged(diff, tol) == Abs[diff] < tol

\* vega < vega_floor
Unstable(vega, vega_floor) == vega < vega_floor

\* sigma -= diff / vega
NewtonStep(s, diff, vega) == s - FDiv[diff, vega]

\* Variant of OutOfRange: only the lower end is tested.
OutOfRangeLowerOnly(s) == s < ncfg.sigma_min

\* sigma < sigma_min or sigma > sigma_max
OutOfRange(s) == s < ncfg.sigma_min \/ s > ncfg.sigma_max

\* Lines 58-74: one iteration of the loop.  (\E x \in {e} binds x to the
\* value of e, evaluated once.)
NewtonIter ==
    /\ pc = "newton_loop"
    /\ n_iter < ncfg.max_iter
    /\ n_sigmas' = n_sigmas \cup {sigma}
    /\ \E price \in {black_scholes_price(side, args.S, args.K, args.T,
                                         args.r, args.q, sigma)} :
       \E diff \in {price.v - args.market_price} :
          IF price.raised
          THEN /\ pc' = "raised"
               /\ evals' = evals + 1
               /\ UNCHANGED <<sigma, n_ret, n_iter>>
          ELSE IF Converged(diff, ncfg.tol)
          THEN /\ n_ret' = Num(sigma)
               /\ pc' = "newton_ret"
               /\ evals' = evals + 1
               /\ UNCHANGED <<sigma, n_iter>>
          ELSE \E vega \in {black_scholes_vega(args.S, args.K, args.T,
                                               args.r, args.q, sigma)} :
               /\ evals' = evals + 2
               /\ IF vega.raised
                  THEN /\ pc' = "raised"
                       /\ UNCHANGED <<sigma, n_ret, n_iter>>
                  ELSE IF Unstable(vega.v, ncfg.vega_floor)
                  THEN /\ n_ret' = NaN
                       /\ pc' = "newton_ret"
                       /\ UNCHANGED <<sigma, n_iter>>
                  ELSE /\ sigma' = NewtonStep(sigma, diff, vega.v)
                       /\ IF OutOfRange(sigma')
                          THEN /\ n_ret' = NaN
                               /\ pc' = "newton_ret"
                               /\ UNCHANGED n_iter
                          ELSE /\ n_iter' = n_iter + 1
                               /\ UNCHANGED <<n_ret, pc>>
    /\ UNCHANGED <<entry, args, ncfg, bcfg, side, low, high, f_low, f_high,
                   b_iter, b_ret, result, trace>>

\* Line 76: max_iter exhausted.
NewtonExhausted ==
    /\ pc = "newton_loop"
    /\ n_iter >= ncfg.max_iter
    /\ n_ret' = NaN
    /\ pc' = "newton_ret"
    /\ UNCHANGED <<entry, args, ncfg, bcfg, side, sigma, n_iter, low, high,
                   f_low, f_high, b_iter, b_ret, result, trace, evals,
                   n_sigmas>>

----------------------------------------------------------------------------
(* implied_vol_bisection                                                   *)

\* Lines 87-105: normalisation, pre-checks, the initial bracket.
BisectEnter ==
    /\ pc = "bisect_enter"
    /\ trace' = Append(trace, "bisection")
    /\ side' = Normalize(args.side)
    /\ b_iter' = 0
    /\ IF ~ValidSide(side')
       THEN /\ pc' = "raised"
            /\ UNCHANGED <<low, high, f_low, f_high, b_ret, evals>>
       ELSE IF PreCheckRejects(side', args.market_price, args.S, args.K,
                               args.T, args.r, args.q, bcfg.enforce_bounds)
       THEN /\ b_ret' = NaN
            /\ pc' = "bisect_ret"
            /\ UNCHANGED <<low, high, f_low, f_high, evals>>
       ELSE \E pl \in {black_scholes_price(side', args.S, args.K, args.T,
                                           args.r, args.q, bcfg.sigma_low)},
               ph \in {black_scholes_price(side', args.S, args.K, args.T,
                                           args.r, args.q, bcfg.sigma_high)} :
                IF pl.raised
                THEN /\ pc' = "raised"
                     /\ evals' = evals + 1
                     /\ UNCHANGED <<low, high, f_low, f_high, b_ret>>
                ELSE IF ph.raised
                THEN /\ pc' = "raised"
                     /\ evals' = evals + 2
                     /\ UNCHANGED <<low, high, f_low, f_high, b_ret>>
                ELSE /\ low' = bcfg.sigma_low
                     /\ high' = bcfg.sigma_high
                     /\ f_low' = pl.v - args.market_price
                     /\ f_high' = ph.v - args.market_price
                     /\ evals' = evals + 2
                     /\ IF ProductPositive(f_low', f_high')
                        THEN b_ret' = NaN /\ pc' = "bisect_ret"
                        ELSE pc' = "bisect_loop" /\ UNCHANGED b_ret
    /\ UNCHANGED <<entry, args, ncfg, bcfg, sigma, n_iter, n_ret, result,
                   n_sigmas>>

\* abs(f_mid) < tol or (high - low) < tol
BisectConverged(f_mid, lo, hi, tol) == Abs[f_mid] < tol \/ (hi - lo) < tol

\* mid = 0.5 * (low + high)
Mid(lo, hi) == (lo + hi) \div 2

\* Variant of LowerHalf: the halves are exchanged.
LowerHalfSwapped(fl, fm) == ProductPositive(fl, fm)

\* f_low * f_mid <= 0: the root is in the lower half.
LowerHalf(fl, fm) == ~ProductPositive(fl, fm)

\* Lines 107-120: one iteration of the loop.
BisectIter ==
    /\ pc = "bisect_loop"
    /\ b_iter < bcfg.max_iter
    /\ \E mid \in {Mid(low, high)} :
       \E pm \in {black_scholes_price(side, args.S, args.K, args.T, args.r,
                                      args.q, mid)} :
       \E f_mid \in {pm.v - args.market_price} :
           /\ evals' = evals + 1
           /\ IF pm.raised
              THEN /\ pc' = "raised"
                   /\ UNCHANGED <<low, high, f_low, f_high, b_iter, b_ret>>
              ELSE IF BisectConverged(f_mid, low, high, bcfg.tol)
              THEN /\ b_ret' = Num(mid)
                   /\ pc' = "bisect_ret"
                   /\ UNCHANGED <<low, high, f_low, f_high, b_iter>>
              ELSE /\ IF LowerHalf(f_low, f_mid)
                      THEN /\ high' = mid
                           /\ f_high' = f_mid
                           /\ UNCHANGED <<low, f_low>>
                      ELSE /\ low' = mid
                           /\ f_low' = f_mid
                           /\ UNCHANGED <<high, f_high>>
                   /\ b_iter' = b_iter + 1
                   /\ UNCHANGED <<pc, b_ret>>
    /\ UNCHANGED <<entry, args, ncfg, bcfg, side, sigma, n_iter, n_ret,
                   result, trace, n_sigmas>>

\* Line 122: max_iter exhausted.
BisectExhausted ==
    /\ pc = "bisect_loop"
    /\ b_iter >= bcfg.max_iter
    /\ b_ret' = NaN
    /\ pc' = "bisect_ret"
    /\ UNCHANGED <<entry, args, ncfg, bcfg, side, sigma, n_iter, n_ret, low,
                   high, f_low, f_high, b_iter, result, trace, evals,
                   n_sigmas>>

----------------------------------------------------------------------------
(* implied_vol                                                             *)

\* Variant of FallBack: bisection is run whatever Newton returned.
FallBackAlways(newton_sigma) == TRUE

\* Variant of FallBack: bisection is never run.
FallBackNever(newton_sigma) == FALSE

\* if math.isnan(sigma): fall back to bisection.
FallBack(newton_sigma) == IsNan(newton_sigma)

\* Lines 134-137: implied_vol_newton has returned.
NewtonReturn ==
    /\ pc = "newton_ret"
    /\ IF entry = "implied_vol" /\ FallBack(n_ret)
       THEN pc' = "bisect_enter" /\ UNCHANGED result
       ELSE pc' = "done" /\ result' = n_ret
    /\ UNCHANGED <<entry, args, ncfg, bcfg, side, sigma, n_iter, n_ret, low,
                   high, f_low, f_high, b_iter, b_ret, trace, evals, n_sigmas>>

\* Lines 137-139: implied_vol_bisection has returned.
BisectReturn ==
    /\ pc = "bisect_ret"
    /\ pc' = "done"
    /\ result' = b_ret
    /\ UNCHANGED <<entry, args, ncfg, bcfg, side, sigma, n_iter, n_ret, low,
                   high, f_low, f_high, b_iter, b_ret, trace, evals, n_sigmas>>
----------------------------------------------------------------------------
(* Inputs.                                                                 *)

\* Number of steps of the grid of true volatilities on [0.05, 3.0].
NumSigma == 3

SigmaLo == ONE \div 20
SigmaHi == 3 * ONE

\* The volatilities whose prices are offered as market prices.
SigmaGrid ==
    {SigmaLo + ((k * (SigmaHi - SigmaLo)) \div NumSigma) : k \in 0..NumSigma}

Sides == {CALL, PUT}
OddSides == {<<" ", "P", "U", "T">>, <<"C", "a", "l", "l", " ">>,
             <<"f", "w", "d">>, <<>>}
Spots == {-ONE, 0, ONE}
Strikes == {-ONE, 0, ONE \div 10, (8 * ONE) \div 10, ONE, (12 * ONE) \div 10}
Maturities == {-ONE, 0, ONE \div 100, ONE}
Rates == {ONE \div 20}
Yields == {0, ONE \div 50}
InitialSigmas == {0, DefaultInitialSigma, 6 * ONE}

\* Market prices offered for an instrument: a negative price, zero, the
\* arbitrage bounds, a price above the upper bound, and the model prices of
\* the volatilities of SigmaGrid.
MarketPrices(sd, S, K, T, r, q) ==
    {-ONE, 0, NoArbitrageBounds(Normalize(sd), S, K, T, r, q)[1],
     NoArbitrageBounds(Normalize(sd), S, K, T, r, q)[2],
     NoArbitrageBounds(Normalize(sd), S, K, T, r, q)[2] + ONE}
    \cup (IF ValidSide(Normalize(sd)) /\ S > 0 /\ K > 0 /\ T > 0
          THEN {PriceBody(Normalize(sd), S, K, T, r, q, sg) : sg \in SigmaGrid}
          ELSE {})

Args(sd, mp, S, K, T, r, q, s0) ==
    [side |-> sd, market_price |-> mp, S |-> S, K |-> K, T |-> T, r |-> r,
     q |-> q, initial_sigma |-> s0]

\* Iteration caps of the direct calls that exhaust max_iter.
NewtonShortIter == 2
BisectShortIter == 5

\* A narrower volatility range for the direct calls: [0.1, 1.0].
NarrowLo == ONE \div 10
NarrowHi == ONE

NewtonConfigs ==
    {NewtonDefaults,
     [NewtonDefaults EXCEPT !.max_iter = NewtonShortIter],
     [NewtonDefaults EXCEPT !.sigma_min = NarrowLo, !.sigma_max = NarrowHi],
     [NewtonDefaults EXCEPT !.enforce_bounds = FALSE]}

BisectConfigs ==
    {BisectDefaults,
     [BisectDefaults EXCEPT !.max_iter = BisectShortIter],
     [BisectDefaults EXCEPT !.sigma_low = NarrowLo, !.sigma_high = NarrowHi],
     [BisectDefaults EXCEPT !.enforce_bounds = FALSE]}

\* implied_vol(...) with a well-formed side, on every instrument.
ImpliedVolCall ==
    /\ entry = "implied_vol"
    /\ \E sd \in Sides, S \in Spots, K \in Strikes, T \in Maturities,
          r \in Rates, q \in Yields, s0 \in InitialSigmas :
         \E mp \in MarketPrices(sd, S, K, T, r, q) :
            args = Args(sd, mp, S, K, T, r, q, s0)
    /\ ncfg = NewtonDefaults
    /\ bcfg = BisectDefaults
    /\ pc = "newton_enter"

\* implied_vol(...) with each of the other sides, on one instrument.
OddSideCall ==
    /\ entry = "implied_vol"
    /\ \E sd \in OddSides, r \in Rates, q \in Yields :
         \E mp \in MarketPrices(sd, ONE, ONE, ONE, r, q) :
            args = Args(sd, mp, ONE, ONE, ONE, r, q, DefaultInitialSigma)
    /\ ncfg = NewtonDefaults
    /\ bcfg = BisectDefaults
    /\ pc = "newton_enter"

\* implied_vol_newton(...) and implied_vol_bisection(...) called directly,
\* with keyword arguments, on the instruments with S = 1 and T = 1.
DirectCall ==
    /\ entry \in {"newton", "bisection"}
    /\ \E sd \in Sides, K \in Strikes, r \in Rates, q \in Yields,
          s0 \in InitialSigmas :
         \E mp \in MarketPrices(sd, ONE, K, ONE, r, q) :
            /\ args = Args(sd, mp, ONE, K, ONE, r, q, s0)
            /\ entry = "bisection" => s0 = DefaultInitialSigma
    /\ ncfg \in NewtonConfigs
    /\ bcfg \in BisectConfigs
    /\ IF entry = "newton"
       THEN pc = "newton_enter" /\ bcfg = BisectDefaults
       ELSE pc = "bisect_enter" /\ ncfg = NewtonDefaults

Init ==
    /\ ImpliedVolCall \/ OddSideCall \/ DirectCall
    /\ side = <<>>
    /\ sigma = 0
    /\ n_iter = 0
    /\ n_ret = NaN
    /\ low = 0
    /\ high = 0
    /\ f_low = 0
    /\ f_high = 0
    /\ b_iter = 0
    /\ b_ret = NaN
    /\ result = NaN
    /\ trace = <<>>
    /\ evals = 0
    /\ n_sigmas = {}

Next ==
    \/ NewtonEnter
    \/ NewtonIter
    \/ NewtonExhausted
    \/ NewtonReturn
    \/ BisectEnter
    \/ BisectIter
    \/ BisectExhausted
    \/ BisectReturn

Spec == Init /\ [][Next]_vars
----------------------------------------------------------------------------
(* Direct calls of the pricer.                                             *)

PricerSides == Sides \cup OddSides
PricerSigmas == {-(ONE \div 10), 0, ONE \div 5, 3 * ONE}

PricerArgs(sd, S, K, T, r, q, sg) ==
    [side |-> sd, S |-> S, K |-> K, T |-> T, r |-> r, q |-> q, sigma |-> sg]

InitPricer ==
    /\ entry \in {"price", "vega"}
    /\ \E sd \in PricerSides, S \in Spots, K \in Strikes, T \in Maturities,
          r \in Rates, q \in Yields, sg \in PricerSigmas :
         args = PricerArgs(sd, S, K, T, r, q, sg)
    /\ ncfg = NewtonDefaults
    /\ bcfg = BisectDefaults
    /\ pc = "pricer_enter"
    /\ side = <<>>
    /\ sigma = 0
    /\ n_iter = 0
    /\ n_ret = NaN
    /\ low = 0
    /\ high = 0
    /\ f_low = 0
    /\ f_high = 0
    /\ b_iter = 0
    /\ b_ret = NaN
    /\ result = NaN
    /\ trace = <<>>
    /\ evals = 0
    /\ n_sigmas = {}

\* A call returns (pc = "done", result set) or raises (pc = "raised",
\* no result).
Outcome(call) ==
    /\ evals' = evals + 1
    /\ IF call.raised
       THEN pc' = "raised" /\ UNCHANGED result
       ELSE pc' = "done" /\ result' = Num(call.v)
    /\ UNCHANGED <<entry, args, ncfg, bcfg, side, sigma, n_iter, n_ret, low,
                   high, f_low, f_high, b_iter, b_ret, trace, n_sigmas>>

PriceCall ==
    /\ pc = "pricer_enter"
    /\ entry = "price"
    /\ Outcome(black_scholes_price(args.side, args.S, args.K, args.T, args.r,
                                   args.q, args.sigma))

VegaCall ==
    /\ pc = "pricer_enter"
    /\ entry = "vega"
    /\ Outcome(black_scholes_vega(args.S, args.K, args.T, args.r, args.q,
                                  args.sigma))

NextPricer == PriceCall \/ VegaCall

SpecPricer == InitPricer /\ [][NextPricer]_vars

----------------------------------------------------------------------------
(* Properties.                                                             *)

\* The side is well formed: "call" or "put" after .lower().strip().
WellFormedSide == ValidSide(Normalize(args.side))

IsImpliedVol == entry = "implied_vol"

\* C1: implied_vol runs implied_vol_newton first and implied_vol_bisection
\* only after Newton returned NaN; a non-NaN Newton result is returned as
\* it is, with bisection never entered; otherwise the result is exactly what
\* bisection returned.
C1_NewtonFirstThenFallback ==
    IsImpliedVol =>
        /\ trace \in {<<>>, <<"newton">>, <<"newton", "bisection">>}
        /\ pc # "newton_enter" => trace # <<>>
        /\ Len(trace) = 2 => IsNan(n_ret)
        /\ pc = "done" =>
              IF ~IsNan(n_ret)
              THEN result = n_ret /\ trace = <<"newton">>
              ELSE result = b_ret /\ trace = <<"newton", "bisection">>

\* C1 witness: Newton returned NaN after iterating and the value returned
\* is the volatility found by bisection.
C1_Witness ==
    /\ IsImpliedVol
    /\ pc = "done"
    /\ IsNan(n_ret)
    /\ n_sigmas # {}
    /\ ~IsNan(result)
    /\ result = b_ret

\* C2 (as claimed): with a well-formed side implied_vol never raises,
\* whatever S, K, T and the market price are.
C2_NeverRaisesOnWellFormedSide ==
    (IsImpliedVol /\ WellFormedSide) => pc # "raised"

\* market_price is outside [lower - 1e-12, upper + 1e-12].
OutsideNoArbitrageInterval ==
    \/ args.market_price
          < NoArbitrageBounds(Normalize(args.side), args.S, args.K, args.T,
                              args.r, args.q)[1] - BoundsTol
    \/ args.market_price
          > NoArbitrageBounds(Normalize(args.side), args.S, args.K, args.T,
                              args.r, args.q)[2] + BoundsTol

\* C4: with a well-formed side, a negative market price, T <= 0 or a market
\* price outside the no-arbitrage interval makes implied_vol return NaN;
\* Newton and bisection both reject before any pricer evaluation.
C4_RejectedBeforePricing ==
    (/\ IsImpliedVol
     /\ WellFormedSide
     /\ args.market_price < 0 \/ args.T <= 0 \/ OutsideNoArbitrageInterval)
    => /\ evals = 0
       /\ n_sigmas = {}
       /\ pc \notin {"raised", "newton_loop", "bisect_loop"}
       /\ pc = "done" => (IsNan(result) /\ trace = <<"newton", "bisection">>)

\* C4 witness: a market price above the upper bound, with T > 0, has been
\* rejected by both procedures.
C4_Witness ==
    /\ IsImpliedVol
    /\ WellFormedSide
    /\ args.T > 0
    /\ args.S > 0
    /\ args.K > 0
    /\ args.market_price
          > NoArbitrageBounds(Normalize(args.side), args.S, args.K, args.T,
                              args.r, args.q)[2]
    /\ pc = "done"
    /\ IsNan(result)
    /\ trace = <<"newton", "bisection">>

\* C10: every non-NaN value implied_vol returns lies in [1e-6, 5.0].
C10_ResultInRange ==
    (IsImpliedVol /\ pc = "done" /\ ~IsNan(result))
    => (ONE \div 10^6 <= result.v /\ result.v <= 5 * ONE)

\* C10 witness: a volatility returned although the initial guess was
\* outside [1e-6, 5.0].
C10_Witness ==
    /\ IsImpliedVol
    /\ pc = "done"
    /\ ~IsNan(result)
    /\ args.initial_sigma \in {0, 6 * ONE}

\* The inputs the pricer accepts: S > 0, K > 0, T >= 0 (sigma apart).
PositiveInstrument == args.S > 0 /\ args.K > 0 /\ args.T > 0

\* The volatilities of the grid whose model price is the market price.
TrueSigmas == {sg \in SigmaGrid : F(sg) = 0}

\* |x - y| <= 1e-4
Within1e4(x, y) == Abs[x - y] <= ONE \div 10^4

IsRoundTrip ==
    /\ IsImpliedVol
    /\ WellFormedSide
    /\ PositiveInstrument
    /\ args.initial_sigma = DefaultInitialSigma
    /\ pc \in {"done", "raised"}

\* C3 (as claimed): implied_vol applied to the price of a volatility sigma
\* in [0.05, 3.0], with the default initial guess, returns a value within
\* 1e-4 of sigma.
C3_RoundTripRecoversSigma ==
    IsRoundTrip =>
        \A sg \in TrueSigmas :
            pc = "done" /\ ~IsNan(result) /\ Within1e4(result.v, sg)

\* The price separates sg from the volatilities 1e-4 away: at sg - 1e-4 and
\* at sg + 1e-4 it differs from the market price by the tolerance 1e-7 of
\* the solver or more.
Sensitive(sg) ==
    /\ Abs[F(sg - ONE \div 10^4)] >= NewtonTol
    /\ Abs[F(sg + ONE \div 10^4)] >= NewtonTol

\* C3 (amended): implied_vol applied to the price of a volatility sigma in
\* [0.05, 3.0], with the default initial guess, returns a value within 1e-4
\* of sigma, provided the prices at sigma - 1e-4 and sigma + 1e-4 differ from
\* the price at sigma by 1e-7 or more.
C3_RoundTripWhereSensitive ==
    IsRoundTrip =>
        \A sg \in TrueSigmas :
            Sensitive(sg) =>
                pc = "done" /\ ~IsNan(result) /\ Within1e4(result.v, sg)

\* C3 witness: a volatility far from the initial guess recovered, by the
\* bisection fallback, from the price it gives.
C3_Witness ==
    /\ IsRoundTrip
    /\ pc = "done"
    /\ ~IsNan(result)
    /\ IsNan(n_ret)
    /\ \E sg \in TrueSigmas :
          sg >= ONE /\ Sensitive(sg) /\ Within1e4(result.v, sg)

\* The pre-checks of implied_vol_bisection pass and the default bracket
\* [1e-6, 5.0] holds a sign change of f.
BracketedByDefault ==
    /\ bcfg = BisectDefaults
    /\ WellFormedSide
    /\ args.S > 0
    /\ args.K > 0
    /\ args.market_price >= 0
    /\ args.T > 0
    /\ ~OutsideNoArbitrageInterval
    /\ Sgn[F(ONE \div 10^6)] * Sgn[F(5 * ONE)] <= 0

\* C5: when the pre-checks pass and f changes sign on the default bracket,
\* implied_vol_bisection returns a volatility before max_iter is exhausted,
\* and so does implied_vol when Newton returned NaN.
C5_BisectionConverges ==
    (/\ entry \in {"implied_vol", "bisection"}
     /\ trace # <<>>
     /\ trace[Len(trace)] = "bisection"
     /\ BracketedByDefault)
    => /\ pc # "raised"
       /\ pc = "bisect_loop" => b_iter < BisectMaxIter
       /\ pc \in {"bisect_ret", "done"} => ~IsNan(b_ret)
       /\ pc = "done" => ~IsNan(result)

\* C5 witness: Newton gave up on a vega below the floor at its first
\* iteration and implied_vol returned the volatility bisection found.
C5_Witness ==
    /\ IsImpliedVol
    /\ pc = "done"
    /\ IsNan(n_ret)
    /\ Cardinality(n_sigmas) = 1
    /\ \A s \in n_sigmas :
          black_scholes_vega(args.S, args.K, args.T, args.r, args.q, s).v
              < VegaFloor
    /\ b_iter > 20
    /\ ~IsNan(result)

IsNewton == entry \in {"implied_vol", "newton"}

\* C7: in implied_vol_newton (sigma_min <= sigma_max) sigma starts as the
\* initial guess clamped into [sigma_min, sigma_max]; the pricer is only
\* evaluated at sigmas of that interval; an update that leaves it is kept
\* as it is and the procedure returns NaN without evaluating the pricer
\* there.
C7_NewtonSigmaInRange ==
    (IsNewton /\ ncfg.sigma_min <= ncfg.sigma_max) =>
        /\ (pc = "newton_loop" /\ n_iter = 0) =>
              sigma = (IF args.initial_sigma < ncfg.sigma_min
                       THEN ncfg.sigma_min
                       ELSE IF args.initial_sigma > ncfg.sigma_max
                       THEN ncfg.sigma_max
                       ELSE args.initial_sigma)
        /\ \A s \in n_sigmas : ncfg.sigma_min <= s /\ s <= ncfg.sigma_max
        /\ (n_sigmas # {} /\ (sigma < ncfg.sigma_min \/ sigma > ncfg.sigma_max))
           => /\ pc # "newton_loop"
              /\ IsNan(n_ret)
              /\ sigma \notin n_sigmas

\* C7 witness: a Newton update above sigma_max, and NaN returned.
C7_Witness ==
    /\ IsNewton
    /\ pc = "newton_ret"
    /\ sigma > ncfg.sigma_max
    /\ n_iter >= 1
    /\ IsNan(n_ret)

\* The bracket invariant of implied_vol_bisection.
BracketInvariant ==
    pc = "bisect_loop" =>
        /\ bcfg.sigma_low <= low
        /\ low <= high
        /\ high <= bcfg.sigma_high
        /\ Sgn[f_low] * Sgn[f_high] <= 0
        /\ f_low = F(low)
        /\ f_high = F(high)

\* One iteration that stays in the loop: high = mid when f_low f_mid <= 0,
\* low = mid otherwise, and the width is halved (to one quantum).
BracketStep ==
    (pc = "bisect_loop" /\ pc' = "bisect_loop") =>
        /\ IF Sgn[f_low] * Sgn[F((low + high) \div 2)] <= 0
           THEN high' = (low + high) \div 2 /\ low' = low
           ELSE low' = (low + high) \div 2 /\ high' = high
        /\ Abs[2 * (high' - low') - (high - low)] <= 1

\* C8: once f(sigma_low) f(sigma_high) <= 0 has passed, every iteration of
\* implied_vol_bisection keeps sigma_low <= low <= high <= sigma_high and
\* f_low f_high <= 0, with f_low and f_high the values of f at low and high,
\* halves the width, and moves high to mid when f_low f_mid <= 0 and low to
\* mid otherwise.
C8_BisectionBracket == []BracketInvariant /\ [][BracketStep]_vars

\* C8 witness: both ends of the bracket have moved.
C8_Witness ==
    /\ pc = "bisect_loop"
    /\ low > bcfg.sigma_low
    /\ high < bcfg.sigma_high
    /\ b_iter >= 3

\* Every volatility Newton returns reprices to the market price within tol.
NewtonResultConverged ==
    (IsNewton /\ ~IsNan(n_ret)) => Abs[F(n_ret.v)] < ncfg.tol

\* One iteration of Newton: a converged sigma is returned with the pricer
\* evaluated once (no vega); otherwise vega is evaluated, a vega below the
\* floor returns NaN at the same sigma, and nothing but NaN is returned.
NewtonTestOrder ==
    (pc = "newton_loop" /\ n_iter < ncfg.max_iter /\ args.S > 0 /\ args.K > 0)
    => IF Abs[F(sigma)] < ncfg.tol
       THEN pc' = "newton_ret" /\ n_ret' = Num(sigma) /\ evals' = evals + 1
       ELSE /\ evals' = evals + 2
            /\ pc' = "newton_ret" => IsNan(n_ret')
            /\ black_scholes_vega(args.S, args.K, args.T, args.r, args.q,
                                  sigma).v < ncfg.vega_floor
               => (pc' = "newton_ret" /\ IsNan(n_ret') /\ sigma' = sigma)

\* C9: in each iteration of implied_vol_newton the convergence test comes
\* before the vega test: a sigma with |price - market_price| < tol is
\* returned even if its vega is below the floor, NaN for an unstable vega is
\* returned only after the convergence test failed, and every non-NaN
\* result satisfies |price(sigma) - market_price| < tol.
C9_ConvergenceBeforeVega == []NewtonResultConverged /\ [][NewtonTestOrder]_vars

\* C9 witness: Newton has returned a sigma whose vega is below the floor.
C9_Witness ==
    /\ IsNewton
    /\ pc = "newton_ret"
    /\ ~IsNan(n_ret)
    /\ black_scholes_vega(args.S, args.K, args.T, args.r, args.q,
                          n_ret.v).v < ncfg.vega_floor

====
